---- MODULE Spec2Model ----
(***************************************************************************)
(* Model of the capture / analyze workflow of src/src/app/page.js (the     *)
(* Page component): the React state, the camera stream reference, and the  *)
(* asynchronous continuations of openCamera, capturePhoto and analyze.     *)
(*                                                                         *)
(* One action is one run of JavaScript between two suspension points: an   *)
(* event handler up to its first await, or the continuation after an       *)
(* await settles.  React applies the state setters of one such run         *)
(* together, and re-renders before the next event is handled, so every     *)
(* handler reads the current state and the buttons offered are those of    *)
(* the current state.                                                      *)
(***************************************************************************)
EXTENDS Integers, Sequences, FiniteSets, TLC

\* ---------------------------------------------------------------- bounds
\* camera streams that exist at once (live, or being acquired)
MaxStreams == 2
\* images (captured blobs and selected files) in one run
MaxImages == 2
\* asynchronous operations suspended at once: getUserMedia, video.play(),
\* toBlob, and the requests of analyze
MaxPending == 2

\* ---------------------------------------------------------------- values
\* JavaScript null for an optional value, and a present value
None == << >>
Some(x) == << x >>

\* messages of the failure paths
CameraErrorMsg == "Camera access failed. Please allow camera permission or use Gallery upload."
CaptureErrorMsg == "Could not capture image. Please try again."
AnalyzeDefaultMsg == "Failed to analyze image."
CatchDefaultMsg == "Something went wrong."

\* messages of the errors a rejected fetch carries (the empty one takes
\* the || default of the catch block)
TransportMessages == {"Failed to fetch", ""}
\* message of the SyntaxError res.json() rejects with
JsonSyntaxMsg == "Unexpected token < in JSON at position 0"

\* response bodies: not JSON, the JSON value null, or a JSON object
Body(kind, err, isBanana, dark) ==
    [kind |-> kind, error |-> err, is_banana |-> isBanana, too_dark |-> dark]
Bodies ==
    { Body("notjson", None, FALSE, FALSE),
      Body("null", None, FALSE, FALSE),
      Body("object", None, TRUE, FALSE),
      Body("object", None, FALSE, TRUE),
      Body("object", Some("Model unavailable"), FALSE, FALSE),
      Body("object", Some(""), FALSE, FALSE) }

Modes == {"idle", "camera", "preview", "analyzing", "result"}

VARIABLES
    mode,            \* useState("idle")
    imageURL,        \* useState(null): 0 is null, n > 0 the object URL of image n
    imageBlob,       \* useState(null): 0 is null, n > 0 image n
    stepIndex,       \* useState(-1)
    error,           \* useState(null): None or Some(message)
    result,          \* useState(null): None or Some(data)
    busy,            \* useState(false)
    streamRef,       \* streamRef.current: 0 is null, n > 0 stream n
    liveStreams,     \* streams handed out whose tracks have not been stopped
    pendingGUM,      \* openCamera invocations suspended at await getUserMedia
    pendingPlay,     \* openCamera invocations suspended at await video.play()
    pendingCaptures, \* capturePhoto invocations suspended at await toBlob
    blobsMade,       \* number of images produced so far
    objectURLs,      \* object URLs created and not revoked
    dialogOpen,      \* the file picker opened by fileInputRef.current.click()
    requests,        \* analyze invocations suspended at an await (records)
    lastEvent,       \* history: name of the last step taken
    lastReq,         \* history: request the last step belonged to (0: none)
    undisturbed,     \* history: requests since whose analyze() no other event ran
    resetSince,      \* history: requests that were in flight during a resetAll
    lastInput,       \* history: what the last settled fetch / res.json() delivered
    captureLive,     \* history: every suspended capturePhoto began with a live stream held
    resultBlob       \* history: the image whose request produced result (0: no result)

state == <<mode, imageURL, imageBlob, stepIndex, error, result, busy>>
camera == <<streamRef, liveStreams, pendingGUM, pendingPlay>>
images == <<pendingCaptures, blobsMade, objectURLs, dialogOpen>>
history == <<lastEvent, lastReq, undisturbed, resetSince, lastInput, captureLive, resultBlob>>
vars == <<state, camera, images, requests, history>>

\* ---------------------------------------------------------------- helpers
\* canAnalyze as it would be if the busy flag were left out of line 45
canAnalyze_ignoresBusy == imageBlob # 0

\* line 45
canAnalyze == imageBlob # 0 /\ ~busy

\* videoRef.current: the <video> element is rendered exactly while
\* mode === "camera" (line 203)
videoRefCurrent == mode = "camera"

\* ids of the analyze invocations whose request has not settled
InFlight == {r.id : r \in requests}

\* what a settled await of analyze delivered: fetch rejected with an error
\* of some message, or res.json() settled on a body of a response whose
\* status was ok or not
Input(settle, ok, message, data) ==
    [settle |-> settle, ok |-> ok, message |-> message, data |-> data]
NoInput == Input("none", FALSE, "", Body("null", None, FALSE, FALSE))

\* the history variables are kept up to date unless the behaviour began
\* with them switched off (InitLive); they never influence the program
Tracking == lastEvent # "off"

\* history bookkeeping of a step that is not part of any analyze invocation
Note(name) ==
    IF Tracking
    THEN /\ lastEvent' = name
         /\ lastReq' = 0
         /\ undisturbed' = {}
         /\ resetSince' = resetSince
         /\ lastInput' = NoInput
         /\ captureLive' = IF name = "capturePhoto"
                           THEN streamRef # 0 /\ (pendingCaptures = 0 \/ captureLive)
                           ELSE captureLive /\ pendingCaptures' > 0
         /\ resultBlob' = IF result' = None THEN 0 ELSE resultBlob
    ELSE UNCHANGED history

\* history bookkeeping of resetAll
NoteReset ==
    IF Tracking
    THEN /\ lastEvent' = "resetAll"
         /\ lastReq' = 0
         /\ undisturbed' = {}
         /\ resetSince' = InFlight
         /\ lastInput' = NoInput
         /\ captureLive' = captureLive
         /\ resultBlob' = 0
    ELSE UNCHANGED history

\* history bookkeeping of the start of analyze invocation r
NoteStart(r) ==
    IF Tracking
    THEN /\ lastEvent' = "analyze"
         /\ lastReq' = r
         /\ undisturbed' = {r}
         /\ resetSince' = resetSince
         /\ lastInput' = NoInput
         /\ captureLive' = captureLive
         /\ resultBlob' = 0
    ELSE UNCHANGED history

\* history bookkeeping of a continuation of request r that was handed input
NoteReq(name, r, input) ==
    IF Tracking
    THEN /\ lastEvent' = name
         /\ lastReq' = r
         /\ undisturbed' = undisturbed \cap {r}
         /\ resetSince' = resetSince \cap InFlight'
         /\ lastInput' = input
         /\ captureLive' = captureLive
         /\ resultBlob' = IF result' = None THEN 0
                          ELSE IF name = "analyzeSucceeded"
                          THEN (CHOOSE q \in requests : q.id = r).blob
                          ELSE resultBlob
    ELSE UNCHANGED history

\* number of suspended asynchronous operations
Pending == pendingGUM + pendingPlay + pendingCaptures + Cardinality(requests)

\* the stream a resolving getUserMedia hands out: one not live so far
NewStream == CHOOSE s \in 1..MaxStreams :
                 s \notin liveStreams /\ \A t \in 1..(s - 1) : t \in liveStreams

\* the id under which a new analyze invocation is tracked
NewRequest == CHOOSE i \in 1..MaxPending :
                  i \notin InFlight /\ \A j \in 1..(i - 1) : j \in InFlight

\* lines 71-77: the tracks of the referenced stream are stopped
stopCamera ==
    /\ liveStreams' = IF streamRef # 0 THEN liveStreams \ {streamRef} ELSE liveStreams
    /\ streamRef' = 0

\* the state of the page after its first render
InitPage ==
    /\ mode = "idle"
    /\ imageURL = 0
    /\ imageBlob = 0
    /\ stepIndex = -1
    /\ error = None
    /\ result = None
    /\ busy = FALSE
    /\ streamRef = 0
    /\ liveStreams = {}
    /\ pendingGUM = 0
    /\ pendingPlay = 0
    /\ pendingCaptures = 0
    /\ blobsMade = 0
    /\ objectURLs = {}
    /\ dialogOpen = FALSE
    /\ requests = {}

\* the history variables before any step
InitHistory(first) ==
    /\ lastEvent = first
    /\ lastReq = 0
    /\ undisturbed = {}
    /\ resetSince = {}
    /\ lastInput = NoInput
    /\ captureLive = FALSE
    /\ resultBlob = 0

Init == InitPage /\ InitHistory("init")

\* the same start with the history switched off
InitLive == InitPage /\ InitHistory("off")

\* ---------------------------------------------------------------- camera
\* lines 47-57: the "Use Camera" button (rendered while mode !== "camera"),
\* up to await getUserMedia
openCamera ==
    /\ ~dialogOpen
    /\ mode # "camera"
    /\ Pending < MaxPending
    /\ Cardinality(liveStreams) + pendingGUM < MaxStreams
    /\ error' = None
    /\ result' = None
    /\ stepIndex' = -1
    /\ mode' = "camera"
    /\ pendingGUM' = pendingGUM + 1
    /\ UNCHANGED <<imageURL, imageBlob, busy, streamRef, liveStreams,
                   pendingPlay, images, requests>>
    /\ Note("openCamera")

\* lines 54-64: getUserMedia resolves with a new stream
getUserMediaResolved ==
    /\ pendingGUM > 0
    /\ pendingGUM' = pendingGUM - 1
    /\ streamRef' = NewStream
    /\ liveStreams' = liveStreams \cup {NewStream}
    /\ pendingPlay' = IF videoRefCurrent THEN pendingPlay + 1 ELSE pendingPlay
    /\ UNCHANGED <<state, images, requests>>
    /\ Note("getUserMediaResolved")

\* lines 65-68: getUserMedia rejects
getUserMediaRejected ==
    /\ pendingGUM > 0
    /\ pendingGUM' = pendingGUM - 1
    /\ mode' = "idle"
    /\ error' = Some(CameraErrorMsg)
    /\ UNCHANGED <<imageURL, imageBlob, stepIndex, result, busy, streamRef, liveStreams,
                   pendingPlay, images, requests>>
    /\ Note("getUserMediaRejected")

\* line 63: video.play() resolves
playResolved ==
    /\ pendingPlay > 0
    /\ pendingPlay' = pendingPlay - 1
    /\ UNCHANGED <<state, streamRef, liveStreams, pendingGUM, images,
                   requests>>
    /\ Note("playResolved")

\* lines 63-68: video.play() rejects
playRejected ==
    /\ pendingPlay > 0
    /\ pendingPlay' = pendingPlay - 1
    /\ mode' = "idle"
    /\ error' = Some(CameraErrorMsg)
    /\ UNCHANGED <<imageURL, imageBlob, stepIndex, result, busy, streamRef, liveStreams,
                   pendingGUM, images, requests>>
    /\ Note("playRejected")

\* lines 79-82: the "Back" button, rendered while mode === "camera"
closeCamera ==
    /\ ~dialogOpen
    /\ mode = "camera"
    /\ stopCamera
    /\ mode' = "idle"
    /\ UNCHANGED <<imageURL, imageBlob, stepIndex, error, result, busy,
                   pendingGUM, pendingPlay, images, requests>>
    /\ Note("closeCamera")

\* lines 84-98: the "Capture" button, up to await toBlob
capturePhoto ==
    /\ ~dialogOpen
    /\ mode = "camera"
    /\ Pending < MaxPending
    /\ blobsMade + pendingCaptures < MaxImages
    /\ error' = None
    /\ result' = None
    /\ pendingCaptures' = IF videoRefCurrent THEN pendingCaptures + 1 ELSE pendingCaptures
    /\ UNCHANGED <<mode, imageURL, imageBlob, stepIndex, busy, camera, blobsMade,
                   objectURLs, dialogOpen, requests>>
    /\ Note("capturePhoto")

\* lines 100-103: toBlob delivered null
toBlobFailed ==
    /\ pendingCaptures > 0
    /\ pendingCaptures' = pendingCaptures - 1
    /\ error' = Some(CaptureErrorMsg)
    /\ UNCHANGED <<mode, imageURL, imageBlob, stepIndex, result, busy, camera, blobsMade,
                   objectURLs, dialogOpen, requests>>
    /\ Note("toBlobFailed")

\* lines 105-110: toBlob delivered a blob
toBlobDone ==
    /\ pendingCaptures > 0
    /\ pendingCaptures' = pendingCaptures - 1
    /\ stopCamera
    /\ blobsMade' = blobsMade + 1
    /\ objectURLs' = objectURLs \cup {blobsMade + 1}
    /\ imageURL' = blobsMade + 1
    /\ imageBlob' = blobsMade + 1
    /\ mode' = "preview"
    /\ UNCHANGED <<stepIndex, error, result, busy, pendingGUM, pendingPlay,
                   dialogOpen, requests>>
    /\ Note("toBlobDone")

\* ---------------------------------------------------------------- gallery
\* lines 113-118: the "Upload from Gallery" button opens the file picker,
\* which keeps the page's buttons out of reach until it is dismissed
pickFromGallery ==
    /\ ~dialogOpen
    /\ mode # "camera"
    /\ error' = None
    /\ result' = None
    /\ stepIndex' = -1
    /\ dialogOpen' = TRUE
    /\ UNCHANGED <<mode, imageURL, imageBlob, busy, camera, pendingCaptures, blobsMade,
                   objectURLs, requests>>
    /\ Note("pickFromGallery")

\* the picker is dismissed without a new selection: no change event
pickerCancelled ==
    /\ dialogOpen
    /\ dialogOpen' = FALSE
    /\ UNCHANGED <<state, camera, pendingCaptures, blobsMade, objectURLs, requests>>
    /\ Note("pickerCancelled")

\* lines 120-128: the change event of the file input
onFileSelected ==
    /\ dialogOpen
    /\ blobsMade + pendingCaptures < MaxImages
    /\ dialogOpen' = FALSE
    /\ blobsMade' = blobsMade + 1
    /\ objectURLs' = objectURLs \cup {blobsMade + 1}
    /\ imageURL' = blobsMade + 1
    /\ imageBlob' = blobsMade + 1
    /\ mode' = "preview"
    /\ UNCHANGED <<stepIndex, error, result, busy, camera, pendingCaptures, requests>>
    /\ Note("onFileSelected")

\* ---------------------------------------------------------------- reset
\* lines 130-139: the "Reset" button
resetAll ==
    /\ ~dialogOpen
    /\ stopCamera
    /\ mode' = "idle"
    /\ imageURL' = 0
    /\ imageBlob' = 0
    /\ result' = None
    /\ error' = None
    /\ stepIndex' = -1
    /\ busy' = FALSE
    /\ UNCHANGED <<pendingGUM, pendingPlay, images, requests>>
    /\ NoteReset

\* ---------------------------------------------------------------- analyze
\* lines 141-160: analyze() up to await fetch; it sends image imageBlob
analyzeStart ==
    /\ Pending < MaxPending
    /\ busy' = TRUE
    /\ error' = None
    /\ result' = None
    /\ mode' = "analyzing"
    /\ stepIndex' = 1
    /\ requests' = requests \cup
          {[id |-> NewRequest, blob |-> imageBlob, pc |-> "fetch"]}
    /\ UNCHANGED <<imageURL, imageBlob, camera, images>>
    /\ NoteStart(NewRequest)

\* line 142: analyze() returns at once when no image is held
analyze ==
    IF imageBlob = 0
    THEN /\ UNCHANGED <<state, camera, images, requests>>
         /\ Note("analyzeNoImage")
    ELSE analyzeStart

\* lines 292-298: a click on the "Analyze" button, which is disabled
\* unless canAnalyze; a click on a disabled button runs no handler
analyzeClick ==
    /\ ~dialogOpen
    /\ IF canAnalyze
       THEN analyze
       ELSE /\ UNCHANGED <<state, camera, images, requests>>
            /\ Note("analyzeDisabled")

\* the catch block as it would be if it left the mode alone
analyzeCatch_keepsMode(r, msg, input) ==
    /\ requests' = requests \ {r}
    /\ error' = Some(IF msg = "" THEN CatchDefaultMsg ELSE msg)
    /\ busy' = FALSE
    /\ UNCHANGED <<mode, imageURL, imageBlob, stepIndex, result, camera, images>>
    /\ NoteReq("analyzeFailed", r.id, input)

\* the catch block as it would be without the finally of lines 173-175
analyzeCatch_noFinally(r, msg, input) ==
    /\ requests' = requests \ {r}
    /\ mode' = "preview"
    /\ error' = Some(IF msg = "" THEN CatchDefaultMsg ELSE msg)
    /\ UNCHANGED <<imageURL, imageBlob, stepIndex, result, busy, camera, images>>
    /\ NoteReq("analyzeFailed", r.id, input)

\* lines 170-175: the catch block with an error of message msg, then finally
analyzeCatch(r, msg, input) ==
    /\ requests' = requests \ {r}
    /\ mode' = "preview"
    /\ error' = Some(IF msg = "" THEN CatchDefaultMsg ELSE msg)
    /\ busy' = FALSE
    /\ UNCHANGED <<imageURL, imageBlob, stepIndex, result, camera, images>>
    /\ NoteReq("analyzeFailed", r.id, input)

\* lines 157-162: fetch resolves with a response; res.json() is awaited
fetchResolved ==
    \E r \in requests :
        /\ r.pc = "fetch"
        /\ requests' = (requests \ {r}) \cup {[r EXCEPT !.pc = "json"]}
        /\ UNCHANGED <<state, camera, images>>
        /\ NoteReq("fetchResolved", r.id, NoInput)

\* lines 157, 170-175: fetch rejects (no response)
fetchRejected ==
    \E r \in requests : \E msg \in TransportMessages :
        /\ r.pc = "fetch"
        /\ analyzeCatch(r, msg, Input("rejected", FALSE, msg, NoInput.data))

\* line 164: data?.error || "Failed to analyze image."
ServiceMessage(data) ==
    IF data.kind = "object" /\ data.error # None /\ data.error # Some("")
    THEN data.error[1]
    ELSE AnalyzeDefaultMsg

\* setResult(data): the JSON value null is the state's null
ResultOf(data) == IF data.kind = "null" THEN None ELSE Some(data)

\* res.json() settling as it would if a response without a banana were
\* thrown like a failed one (if (!res.ok || !data.is_banana) throw ...)
jsonSettled_rejectsNoBanana ==
    \E r \in requests : \E ok \in BOOLEAN : \E data \in Bodies :
        /\ r.pc = "json"
        /\ IF data.kind = "notjson"
           THEN analyzeCatch(r, JsonSyntaxMsg, Input("body", ok, "", data))
           ELSE IF ~ok \/ ~data.is_banana
           THEN analyzeCatch(r, ServiceMessage(data), Input("body", ok, "", data))
           ELSE /\ requests' = requests \ {r}
                /\ stepIndex' = 2
                /\ result' = ResultOf(data)
                /\ mode' = "result"
                /\ busy' = FALSE
                /\ UNCHANGED <<imageURL, imageBlob, error, camera, images>>
                /\ NoteReq("analyzeSucceeded", r.id, Input("body", ok, "", data))

\* lines 162-175: res.json() settles on the body of a response whose
\* status (res.ok) is read only now
jsonSettled ==
    \E r \in requests : \E ok \in BOOLEAN : \E data \in Bodies :
        /\ r.pc = "json"
        /\ IF data.kind = "notjson"
           THEN analyzeCatch(r, JsonSyntaxMsg, Input("body", ok, "", data))
           ELSE IF ~ok
           THEN analyzeCatch(r, ServiceMessage(data), Input("body", ok, "", data))
           ELSE /\ requests' = requests \ {r}
                /\ stepIndex' = 2
                /\ result' = ResultOf(data)
                /\ mode' = "result"
                /\ busy' = FALSE
                /\ UNCHANGED <<imageURL, imageBlob, error, camera, images>>
                /\ NoteReq("analyzeSucceeded", r.id, Input("body", ok, "", data))

\* ---------------------------------------------------------------- system
Next ==
    \/ openCamera
    \/ getUserMediaResolved
    \/ getUserMediaRejected
    \/ playResolved
    \/ playRejected
    \/ closeCamera
    \/ capturePhoto
    \/ toBlobFailed
    \/ toBlobDone
    \/ pickFromGallery
    \/ pickerCancelled
    \/ onFileSelected
    \/ resetAll
    \/ analyzeClick
    \/ fetchResolved
    \/ fetchRejected
    \/ jsonSettled

Spec == Init /\ [][Next]_vars

\* a step that settles an await of analyze invocation i
Settles(i) ==
    /\ fetchResolved \/ fetchRejected \/ jsonSettled
    /\ \E r \in requests : r.id = i /\ r \notin requests'

\* the network lets every request issued settle: no fetch and no body read
\* stays pending for ever
FairSpec ==
    InitLive /\ [][Next]_vars /\ \A i \in 1..MaxPending : WF_vars(Settles(i))

TypeOK ==
    /\ mode \in Modes
    /\ imageURL \in 0..MaxImages
    /\ imageBlob \in 0..MaxImages
    /\ stepIndex \in -1..2
    /\ busy \in BOOLEAN
    /\ streamRef \in 0..MaxStreams
    /\ liveStreams \subseteq 1..MaxStreams
    /\ dialogOpen \in BOOLEAN

\* ================================================================ claims

\* the state resetAll is said to leave behind
Cleared ==
    /\ mode = "idle"
    /\ imageBlob = 0
    /\ imageURL = 0
    /\ result = None
    /\ error = None
    /\ stepIndex = -1
    /\ busy = FALSE

\* C1: right after a reset, whatever was pending, the workflow is Idle with
\* no image, no result, no error, stepIndex -1, busy false, and no camera
\* stream is live.
C1_ResetClearsEverything ==
    lastEvent = "resetAll" => (Cleared /\ streamRef = 0 /\ liveStreams = {})

\* request id settles (its response or its failure is delivered) in this step
Delivered(id) == id \in InFlight /\ id \notin InFlight'

\* C2: the response of a request that was in flight during a reset is
\* ignored: delivering it changes none of mode, result, error, stepIndex, busy.
C2_LateResponseIgnored ==
    [][\A id \in resetSince :
          Delivered(id) => UNCHANGED <<mode, result, error, stepIndex, busy>>]_vars

\* C3: at most one analysis request is in flight at any instant.
C3_OneRequestInFlight == Cardinality(requests) <= 1

\* the step is a click on the Analyze button
AnalyzeClicked == lastEvent' \in {"analyze", "analyzeNoImage", "analyzeDisabled"}

\* C4: a click on Analyze while no image is held or while busy sends no
\* request and leaves mode, stepIndex, error, result, busy, the image and the
\* camera stream unchanged.
C4_AnalyzeGuardedNoOp ==
    [][(AnalyzeClicked /\ (imageBlob = 0 \/ busy)) =>
          /\ requests' = requests
          /\ UNCHANGED <<mode, stepIndex, error, result, busy, imageBlob, imageURL,
                         streamRef, liveStreams>>]_vars

\* C4 witness: the button was clicked while an analysis was running
C4_Witness == lastEvent = "analyzeDisabled" /\ busy /\ imageBlob # 0 /\ requests # {}

\* C5: a live camera stream and an in-flight analysis request never coexist.
C5_CameraXorAnalysis == ~(liveStreams # {} /\ requests # {})

\* C6: a live stream is referenced by streamRef only while mode is "camera".
C6_StreamOnlyInCameraMode ==
    (streamRef # 0 /\ streamRef \in liveStreams) => mode = "camera"

\* C7: the result is non-null only while mode is "result".
C7_ResultOnlyInResultMode == result # None => mode = "result"

\* C8: stepIndex differs from -1 only while mode is "analyzing" or "result".
C8_StageOnlyWhileAnalyzingOrResult ==
    stepIndex # -1 => mode \in {"analyzing", "result"}

\* the message the claim expects for the failure just delivered: the
\* service's error field when the response carried one, otherwise a default
\* or the transport's own message
ExpectedMessages ==
    IF lastInput.settle = "rejected"
    THEN IF lastInput.message = "" THEN {CatchDefaultMsg} ELSE {lastInput.message}
    ELSE IF lastInput.data.kind = "notjson"
    THEN {JsonSyntaxMsg}
    ELSE IF lastInput.data.kind = "object" /\ lastInput.data.error \notin {None, Some("")}
    THEN {lastInput.data.error[1]}
    ELSE {AnalyzeDefaultMsg}

\* an analyze invocation has just failed and no other event ran since it began
FailedUndisturbed == lastEvent = "analyzeFailed" /\ lastReq \in undisturbed

\* C9: an analyze invocation that fails with no other event in between ends
\* in Preview with busy false, a non-empty error message (the service's error
\* field if present, else a default), no result, and the image still held.
C9_FailureEndsInPreview ==
    FailedUndisturbed =>
        /\ mode = "preview"
        /\ busy = FALSE
        /\ error # None /\ error # Some("")
        /\ error[1] \in ExpectedMessages
        /\ result = None
        /\ imageBlob # 0 /\ imageURL = imageBlob

\* C9 witness: a non-ok response whose body carries an error field was handled
C9_Witness ==
    /\ FailedUndisturbed
    /\ lastInput.settle = "body" /\ ~lastInput.ok
    /\ lastInput.data.error = Some("Model unavailable")
    /\ error = Some("Model unavailable")

\* C10: after a failed analyze invocation has been handled stepIndex is -1,
\* never 0 or 1.
C10_FailureClearsStage == lastEvent = "analyzeFailed" => stepIndex = -1

\* this step begins an analyze invocation (its request joins those in flight)
AnalyzeBegins == lastEvent' = "analyze" /\ lastReq' \in InFlight' /\ requests' # requests

\* this step delivers the successful response of an analyze invocation
AnalyzeSucceeds == lastEvent' = "analyzeSucceeded" /\ requests' # requests

\* C11: a successful analyze invocation shows stage 0 on entry to Analyzing,
\* then 1, then 2 on success, the stage never decreasing while the invocation
\* runs, and it ends with mode Result, the response stored as result, and
\* busy false.
C11_StagesInOrder ==
    [][/\ AnalyzeBegins => (mode' = "analyzing" /\ stepIndex' = 0)
       /\ (requests # {} /\ ~AnalyzeBegins) =>
              (stepIndex' = stepIndex \/ stepIndex' = stepIndex + 1)
       /\ AnalyzeSucceeds =>
              /\ stepIndex' = 2
              /\ mode' = "result"
              /\ result' = ResultOf(lastInput'.data)
              /\ busy' = FALSE]_vars

\* this step is the failure of an openCamera invocation
OpenFails == /\ lastEvent' \in {"getUserMediaRejected", "playRejected"}
             /\ pendingGUM' + pendingPlay' # pendingGUM + pendingPlay

\* C12: whenever open-camera fails, on acquiring the stream or on starting
\* playback, the workflow is Idle with error set and holds no live stream,
\* and the open is not issued again.
C12_OpenFailureLeavesNoStream ==
    [][OpenFails =>
          /\ mode' = "idle"
          /\ error' # None
          /\ streamRef' = 0
          /\ pendingGUM' + pendingPlay' < pendingGUM + pendingPlay]_vars

\* C13: at most one camera stream is live, and a live stream is always the
\* one streamRef references.
C13_OneReachableStream ==
    /\ Cardinality(liveStreams) <= 1
    /\ liveStreams \subseteq {streamRef}

\* this step is one of the operations a user issues other than reset and
\* camera close
OtherOperation ==
    lastEvent' \in {"openCamera", "capturePhoto", "pickFromGallery", "onFileSelected",
                    "analyze", "analyzeNoImage", "analyzeDisabled"}

\* C14: while busy, open-camera, capture, gallery pick, file selection and
\* analyze leave the state unchanged.
C14_BusyBlocksOperations ==
    [][(busy /\ OtherOperation) =>
          UNCHANGED <<state, camera, pendingCaptures, blobsMade, objectURLs, requests>>]_vars

\* C15: a preview handle is released when its image is superseded or the
\* workflow resets: the only unreleased handle is the one on display.
C15_PreviewHandlesReleased ==
    /\ Cardinality(objectURLs) <= 1
    /\ objectURLs \subseteq {imageURL}

\* this step delivers the blob of a capture, or its failure
CaptureDone == lastEvent' = "toBlobDone" /\ pendingCaptures' < pendingCaptures
CaptureFailed == lastEvent' = "toBlobFailed" /\ pendingCaptures' < pendingCaptures

\* C16: a capture begun in CameraOpen with a live stream ends, when a blob
\* is produced, in Preview with the image held, error and result cleared and
\* the stream stopped and released; when no blob is produced it leaves mode
\* CameraOpen, error set, the image unchanged and the stream live.
C16_CaptureOutcome ==
    [][/\ (captureLive /\ CaptureDone) =>
              /\ mode' = "preview"
              /\ imageBlob' # 0 /\ imageURL' = imageBlob'
              /\ error' = None /\ result' = None
              /\ streamRef' = 0 /\ streamRef \notin liveStreams'
       /\ (captureLive /\ CaptureFailed) =>
              /\ mode' = "camera"
              /\ error' # None
              /\ imageBlob' = imageBlob /\ imageURL' = imageURL
              /\ streamRef' # 0 /\ streamRef' \in liveStreams']_vars

\* the changes of mode the transition table lists: <<from, event, to>>
TableTransitions ==
    {<<"idle", "openCamera", "camera">>,
     <<"camera", "closeCamera", "idle">>,
     <<"camera", "getUserMediaRejected", "idle">>,
     <<"camera", "playRejected", "idle">>,
     <<"camera", "toBlobDone", "preview">>,
     <<"idle", "onFileSelected", "preview">>,
     <<"preview", "onFileSelected", "preview">>,
     <<"preview", "analyze", "analyzing">>,
     <<"analyzing", "analyzeSucceeded", "result">>,
     <<"analyzing", "analyzeFailed", "preview">>}
    \cup {<<m, "resetAll", "idle">> : m \in Modes}

\* C17: mode is always one of the five states and every change of mode is a
\* transition of the table.
C17_ModeFollowsTable ==
    [][/\ mode' \in Modes
       /\ mode' # mode => <<mode, lastEvent', mode'>> \in TableTransitions]_vars

\* the last step delivered an ok response whose body is an object that
\* reports no banana
NoBananaDelivered ==
    /\ lastInput.settle = "body" /\ lastInput.ok
    /\ lastInput.data.kind = "object" /\ ~lastInput.data.is_banana

C19_ResultOfCurrentImage ==
    (mode = "result" /\ result # None) => resultBlob = imageBlob

\* analyze invocation i is over, with busy false and mode out of Analyzing
Terminated(i) == i \notin InFlight /\ ~busy /\ mode # "analyzing"

\* C20: when every request settles, every analyze invocation that passed its
\* guard terminates with busy false and mode other than Analyzing, and the
\* workflow is busy or in Analyzing only while a request is in flight, so
\* never for ever.
C20_AnalyzeTerminates ==
    /\ []((busy \/ mode = "analyzing") => requests # {})
    /\ \A i \in 1..MaxPending : (i \in InFlight) ~> Terminated(i)

\* C20 witness: an invocation has run to its end and delivered its result
C20_Witness ==
    /\ requests = {} /\ ~busy
    /\ mode = "result" /\ stepIndex = 2 /\ result # None

====
